---- MODULE Spec2Model ----
(***************************************************************************)
(* Model of bjw-db (src/src/lib.rs): a checkpoint + update-log store.      *)
(*                                                                         *)
(* The store directory is a map from file names to byte strings.  Every    *)
(* public operation of Database is one action; the I/O failure or crash    *)
(* that interrupts it is an input of the action (a fault record naming the *)
(* failing call and, for write_all, how many bytes reached the file).      *)
(* The JSON format is modelled on bytes: serialisation produces a byte     *)
(* string, deserialisation checks UTF-8, splits on '\n' and parses lines.  *)
(***************************************************************************)
EXTENDS Integers, Sequences, FiniteSets

(***************************************************************************)
(* Bounds of the model.                                                    *)
(***************************************************************************)
MaxVersion == 2
MaxLogLen == 8
MaxFaults == 1

(***************************************************************************)
(* The domain type: KeyValueStore { store: BTreeMap<String, String> } with *)
(* the update insert(key, value).  The one key, "e9", stands for the       *)
(* one-character string U+00E9, which serde_json writes as the two bytes   *)
(* C3 A9, so that a write cut between them leaves invalid UTF-8.           *)
(***************************************************************************)
Keys == {"e9"}
Values == {"1", "2"}
None == "none"
DataStates == [Keys -> Values \cup {None}]
Default == [k \in Keys |-> None]
Updates == [key : Keys, value : Values]

\* Updateable::update for the generated Insert variant: self.store.insert(key, value)
DataUpdate(d, u) == [d EXCEPT ![u.key] = u.value]

\* Readable::read for the generated Get variant: self.store.get(key).cloned()
DataRead(d, k) == d[k]

(***************************************************************************)
(* Bytes.                                                                  *)
(***************************************************************************)
LF == 10
KeyBytes(k) == <<195, 169>>
ValBytes(v) == IF v = "1" THEN <<49>> ELSE <<50>>

\* std::str::from_utf8 on the alphabet used here: ASCII bytes, and two-byte
\* sequences made of a lead byte C2..DF followed by a continuation 80..BF.
RECURSIVE Utf8Valid(_)
Utf8Valid(s) ==
    IF s = <<>> THEN TRUE
    ELSE IF s[1] < 128 THEN Utf8Valid(Tail(s))
    ELSE IF s[1] >= 194 /\ s[1] <= 223
         THEN /\ Len(s) >= 2
              /\ s[2] >= 128 /\ s[2] <= 191
              /\ Utf8Valid(Tail(Tail(s)))
    ELSE FALSE

\* str.split('\n'): the segments between line feeds, the last one included
RECURSIVE Split(_)
Split(s) ==
    IF \E i \in 1..Len(s) : s[i] = LF
    THEN LET i == CHOOSE j \in 1..Len(s) :
                     s[j] = LF /\ \A m \in 1..(j - 1) : s[m] # LF
         IN  <<SubSeq(s, 1, i - 1)>> \o Split(SubSeq(s, i + 1, Len(s)))
    ELSE <<s>>

\* serde_json::to_string(params): the text of one update, without line feed
ParamsText(u) == KeyBytes(u.key) \o ValBytes(u.value)

\* JsonFormat::serialize_params
serialize_params_no_newline(u) == ParamsText(u)
serialize_params(u) == ParamsText(u) \o <<LF>>

\* serde_json::from_str(line) for the update enum
ParseParams(line) ==
    IF \E u \in Updates : ParamsText(u) = line
    THEN [ok |-> TRUE, u |-> CHOOSE u \in Updates : ParamsText(u) = line]
    ELSE [ok |-> FALSE, u |-> CHOOSE u \in Updates : TRUE]

\* the loop of JsonFormat::deserialize_params over the split lines
RECURSIVE ParseLines(_)
ParseLines(lines) ==
    IF lines = <<>> THEN <<>>
    ELSE IF Head(lines) = <<>> THEN ParseLines(Tail(lines))
    ELSE IF ParseParams(Head(lines)).ok
         THEN <<ParseParams(Head(lines)).u>> \o ParseLines(Tail(lines))
    ELSE <<>>

\* JsonFormat::deserialize_params
deserialize_params(input) ==
    IF ~Utf8Valid(input)
    THEN [ok |-> FALSE, updates |-> <<>>]
    ELSE [ok |-> TRUE, updates |-> ParseLines(Split(input))]

\* one map entry of the serialised state
EntryBytes(d, k) == IF d[k] = None THEN <<>> ELSE KeyBytes(k) \o ValBytes(d[k])

\* JsonFormat::serialize_data: '{' entries in key order '}'
serialize_data(d) == <<123>> \o EntryBytes(d, "e9") \o <<125>>

\* JsonFormat::deserialize_data
deserialize_data(input) ==
    IF Utf8Valid(input) /\ \E d \in DataStates : serialize_data(d) = input
    THEN [ok |-> TRUE, data |-> CHOOSE d \in DataStates : serialize_data(d) = input]
    ELSE [ok |-> FALSE, data |-> Default]

\* u64::to_string
RECURSIVE to_string(_)
to_string(v) ==
    IF v < 10 THEN <<48 + v>>
    ELSE to_string(v \div 10) \o <<48 + (v % 10)>>

RECURSIVE DigitsValue(_)
DigitsValue(s) ==
    IF s = <<>> THEN 0
    ELSE 10 * DigitsValue(SubSeq(s, 1, Len(s) - 1)) + (s[Len(s)] - 48)

\* str::parse::<u64>: a non-empty run of decimal digits
ParseU64(s) ==
    IF s # <<>> /\ \A i \in 1..Len(s) : s[i] >= 48 /\ s[i] <= 57
    THEN [ok |-> TRUE, v |-> DigitsValue(s)]
    ELSE [ok |-> FALSE, v |-> 0]

(***************************************************************************)
(* The store directory.                                                    *)
(***************************************************************************)
VERSION_FILE == <<"version">>
NEW_VERSION_FILE == <<"new_version">>
CHECKPOINT_PREFIX == "checkpoint"
LOG_PREFIX == "logfile"
CheckpointPath(v) == <<CHECKPOINT_PREFIX, v>>
LogPath(v) == <<LOG_PREFIX, v>>

Exists(fs, n) == n \in DOMAIN fs
WriteFile(fs, n, b) == [m \in DOMAIN fs \cup {n} |-> IF m = n THEN b ELSE fs[m]]
RemoveFiles(fs, S) == [m \in DOMAIN fs \ S |-> fs[m]]
Rename(fs, from, to) == WriteFile(RemoveFiles(fs, {from}), to, fs[from])
NoFiles == [m \in {} |-> <<>>]

(***************************************************************************)
(* Faults: kind "none" (the call sequence runs to its end), "err" (the     *)
(* named call returns an io::Error) or "crash" (the process dies at the    *)
(* named call).  n is the number of bytes a write_all stored before it     *)
(* stopped; del is the set of files cleanup or remove_dir_all removed      *)
(* before it stopped.                                                      *)
(***************************************************************************)
NoFault == [kind |-> "none", at |-> "none", n |-> 0, del |-> {}]
FaultAt(kinds, step) == [kind : kinds, at : {step}, n : {0}, del : {{}}]
WriteFaultAt(kinds, step, len) == [kind : kinds, at : {step}, n : 0..(len - 1), del : {{}}]
BothKinds == {"err", "crash"}

Stepped(ok, fs) == [ok |-> ok, fs |-> fs]

\* Database::write_checkpoint_file
write_checkpoint_file(fs, v, d, f) ==
    LET path == CheckpointPath(v)
        ser == serialize_data(d)
    IN  IF f.at = "ckpt_create" THEN Stepped(FALSE, fs)
        ELSE IF f.at = "ckpt_serialize" THEN Stepped(FALSE, WriteFile(fs, path, <<>>))
        ELSE IF f.at = "ckpt_write" THEN Stepped(FALSE, WriteFile(fs, path, SubSeq(ser, 1, f.n)))
        ELSE IF f.at = "ckpt_sync" THEN Stepped(FALSE, WriteFile(fs, path, ser))
        ELSE Stepped(TRUE, WriteFile(fs, path, ser))

write_checkpoint_faults(d) ==
    FaultAt(BothKinds, "ckpt_create") \cup FaultAt({"err"}, "ckpt_serialize")
      \cup WriteFaultAt(BothKinds, "ckpt_write", Len(serialize_data(d)))
      \cup FaultAt(BothKinds, "ckpt_sync")

\* Database::create_logfile_if_required
create_logfile_if_required(fs, v, f) ==
    LET path == LogPath(v)
    IN  IF Exists(fs, path) THEN Stepped(TRUE, fs)
        ELSE IF f.at = "log_create" THEN Stepped(FALSE, fs)
        ELSE IF f.at = "log_sync" THEN Stepped(FALSE, WriteFile(fs, path, <<>>))
        ELSE Stepped(TRUE, WriteFile(fs, path, <<>>))

create_logfile_faults(fs, v) ==
    IF Exists(fs, LogPath(v)) THEN {}
    ELSE FaultAt(BothKinds, "log_create") \cup FaultAt(BothKinds, "log_sync")

\* Database::update_version_file
update_version_file(fs, v, f) ==
    LET text == to_string(v)
        staged == WriteFile(fs, NEW_VERSION_FILE, text)
    IN  IF f.at = "nv_create" THEN Stepped(FALSE, fs)
        ELSE IF f.at = "nv_write"
             THEN Stepped(FALSE, WriteFile(fs, NEW_VERSION_FILE, SubSeq(text, 1, f.n)))
        ELSE IF f.at = "nv_sync" THEN Stepped(FALSE, staged)
        ELSE IF f.at = "rename" THEN Stepped(FALSE, staged)
        ELSE Stepped(TRUE, Rename(staged, NEW_VERSION_FILE, VERSION_FILE))

update_version_faults(v) ==
    FaultAt(BothKinds, "nv_create")
      \cup WriteFaultAt(BothKinds, "nv_write", Len(to_string(v)))
      \cup FaultAt(BothKinds, "nv_sync") \cup FaultAt(BothKinds, "rename")

\* Database::is_outdated_file
is_outdated_file_checkpoints_only(version, filename) ==
    IF filename = NEW_VERSION_FILE THEN TRUE
    ELSE IF Len(filename) = 2
         THEN filename[1] = CHECKPOINT_PREFIX /\ filename[2] < version
    ELSE FALSE
is_outdated_file(version, filename) ==
    IF filename = NEW_VERSION_FILE THEN TRUE
    ELSE IF Len(filename) = 2
         THEN /\ filename[1] = CHECKPOINT_PREFIX \/ filename[1] = LOG_PREFIX
              /\ filename[2] < version
    ELSE FALSE

Outdated(fs, version) == {n \in DOMAIN fs : is_outdated_file(version, n)}

\* Database::cleanup: entries are visited in directory order, which is
\* arbitrary; an error ends the loop with the files in f.del removed
cleanup_inclusive(fs, version, f) ==
    IF f.at = "cleanup_scan" \/ f.at = "cleanup_remove"
    THEN Stepped(FALSE, RemoveFiles(fs, f.del))
    ELSE Stepped(TRUE, RemoveFiles(fs, Outdated(fs, version + 1)))
cleanup(fs, version, f) ==
    IF f.at = "cleanup_scan" \/ f.at = "cleanup_remove"
    THEN Stepped(FALSE, RemoveFiles(fs, f.del))
    ELSE Stepped(TRUE, RemoveFiles(fs, Outdated(fs, version)))

cleanup_faults(fs, version) ==
    LET out == Outdated(fs, version)
    IN  [kind : BothKinds, at : {"cleanup_scan"}, n : {0}, del : SUBSET out]
          \cup [kind : {"err"}, at : {"cleanup_remove"}, n : {0},
                del : (SUBSET out) \ {out}]

\* Database::replay_updates
replay_updates(fs, version, d) ==
    IF ~Exists(fs, LogPath(version)) THEN [ok |-> FALSE, data |-> d]
    ELSE LET r == deserialize_params(fs[LogPath(version)])
             Apply[i \in 0..Len(r.updates)] ==
                 IF i = 0 THEN d ELSE DataUpdate(Apply[i - 1], r.updates[i])
         IN  IF r.ok THEN [ok |-> TRUE, data |-> Apply[Len(r.updates)]]
             ELSE [ok |-> FALSE, data |-> d]

\* Database::read_checkpoint_file
read_checkpoint_file(fs, version) ==
    IF ~Exists(fs, CheckpointPath(version)) THEN [ok |-> FALSE, data |-> Default]
    ELSE deserialize_data(fs[CheckpointPath(version)])

(***************************************************************************)
(* State.  dirExists and files are the store directory; hOpen, data and    *)
(* version are the one live Database handle (data and version are reset    *)
(* when there is none).  The remaining variables record history: last is   *)
(* the operation that ran last and how it ended, pre the handle's data and *)
(* version before an operation that a crash interrupted, hist what         *)
(* happened to the live handle since it was opened, faults the number of   *)
(* injected faults.                                                        *)
(***************************************************************************)
VARIABLES dirExists, files, hOpen, data, version, last, pre, hist, faults,
          lock, pc, arg

\* the variables of the thread-safe wrapper: the RwLock around the handle,
\* and for each thread the call it is in and the argument of that call
tvars == <<lock, pc, arg>>

Threads == {"t1", "t2"}
NoArg == [key |-> None, value |-> None]
FreeLock == [writer |-> None, readers |-> {}]

vars == <<dirExists, files, hOpen, data, version, last, pre, hist, faults, lock, pc, arg>>

Last(op, f, res, applied, ret) ==
    [op |-> op, res |-> res, at |-> f.at, applied |-> applied, ret |-> ret]
NoPre == [data |-> Default, version |-> 0]
NoHist == [torn |-> FALSE, updErr |-> FALSE, ckptErr |-> "none", cleanupErr |-> FALSE]

\* the last line of the log is a non-empty fragment that does not parse
TornTail(log) ==
    LET lines == Split(log)
    IN  /\ lines[Len(lines)] # <<>>
        /\ ~ParseParams(lines[Len(lines)]).ok

Count(f) == IF f.kind = "none" THEN faults ELSE faults + 1

Init ==
    /\ dirExists = FALSE
    /\ files = NoFiles
    /\ hOpen = FALSE
    /\ data = Default
    /\ version = 0
    /\ last = Last("init", NoFault, "ok", FALSE, None)
    /\ pre = NoPre
    /\ hist = NoHist
    /\ faults = 0
    /\ lock = FreeLock
    /\ pc = [t \in Threads |-> "idle"]
    /\ arg = [t \in Threads |-> NoArg]

NoHandle ==
    /\ hOpen' = FALSE
    /\ data' = Default
    /\ version' = 0
    /\ hist' = NoHist

\* Database::open, the branch for a path that does not exist
open_create_no_logfile(f) ==
    LET r1 == write_checkpoint_file(NoFiles, 0, Default, f)
        r3 == IF r1.ok THEN update_version_file(r1.fs, 0, f) ELSE r1
    IN  IF f.at = "mkdir" THEN [ok |-> FALSE, dir |-> FALSE, fs |-> NoFiles]
        ELSE [ok |-> r3.ok, dir |-> TRUE, fs |-> r3.fs]
open_create(f) ==
    LET r1 == write_checkpoint_file(NoFiles, 0, Default, f)
        r2 == IF r1.ok THEN create_logfile_if_required(r1.fs, 0, f) ELSE r1
        r3 == IF r2.ok THEN update_version_file(r2.fs, 0, f) ELSE r2
    IN  IF f.at = "mkdir" THEN [ok |-> FALSE, dir |-> FALSE, fs |-> NoFiles]
        ELSE [ok |-> r3.ok, dir |-> TRUE, fs |-> r3.fs]

open_create_faults ==
    FaultAt(BothKinds, "mkdir") \cup write_checkpoint_faults(Default)
      \cup create_logfile_faults(NoFiles, 0) \cup update_version_faults(0)

\* Database::open, the branch for an existing path
open_existing_discards_staged(fs, f) ==
    LET fail(g) == [ok |-> FALSE, fs |-> g, data |-> Default, version |-> 0]
        fs1 == IF Exists(fs, NEW_VERSION_FILE)
               THEN RemoveFiles(fs, {NEW_VERSION_FILE}) ELSE fs
        v == IF Exists(fs1, VERSION_FILE) THEN ParseU64(fs1[VERSION_FILE])
             ELSE [ok |-> FALSE, v |-> 0]
        c == read_checkpoint_file(fs1, v.v)
        r == replay_updates(fs1, v.v, c.data)
    IN  IF f.at = "open_rename" THEN fail(fs)
        ELSE IF f.at = "open_read" THEN fail(fs1)
        ELSE IF ~v.ok THEN fail(fs1)
        ELSE IF ~c.ok THEN fail(fs1)
        ELSE IF ~r.ok THEN fail(fs1)
        ELSE [ok |-> TRUE, fs |-> fs1, data |-> r.data, version |-> v.v]
open_existing(fs, f) ==
    LET fail(g) == [ok |-> FALSE, fs |-> g, data |-> Default, version |-> 0]
        fs1 == IF Exists(fs, NEW_VERSION_FILE)
               THEN Rename(fs, NEW_VERSION_FILE, VERSION_FILE) ELSE fs
        v == IF Exists(fs1, VERSION_FILE) THEN ParseU64(fs1[VERSION_FILE])
             ELSE [ok |-> FALSE, v |-> 0]
        c == read_checkpoint_file(fs1, v.v)
        r == replay_updates(fs1, v.v, c.data)
    IN  IF f.at = "open_rename" THEN fail(fs)
        ELSE IF f.at = "open_read" THEN fail(fs1)
        ELSE IF ~v.ok THEN fail(fs1)
        ELSE IF ~c.ok THEN fail(fs1)
        ELSE IF ~r.ok THEN fail(fs1)
        ELSE [ok |-> TRUE, fs |-> fs1, data |-> r.data, version |-> v.v]

open_existing_faults(fs) ==
    (IF Exists(fs, NEW_VERSION_FILE) THEN FaultAt(BothKinds, "open_rename") ELSE {})
      \cup FaultAt(BothKinds, "open_read")

OpenCreate(f) ==
    /\ ~hOpen /\ ~dirExists
    /\ f = NoFault \/ faults < MaxFaults
    /\ LET r == open_create(f)
       IN  /\ dirExists' = r.dir
           /\ files' = r.fs
           /\ hOpen' = r.ok
           /\ data' = Default
           /\ version' = 0
           /\ hist' = NoHist
           /\ last' = Last("open", f, IF r.ok THEN "ok" ELSE f.kind, FALSE, None)
    /\ pre' = NoPre
    /\ faults' = Count(f)
    /\ UNCHANGED tvars

OpenExisting(f) ==
    /\ ~hOpen /\ dirExists
    /\ f = NoFault \/ faults < MaxFaults
    /\ LET r == open_existing(files, f)
       IN  /\ files' = r.fs
           /\ hOpen' = r.ok
           /\ data' = r.data
           /\ version' = r.version
           /\ hist' = IF r.ok
                      THEN [NoHist EXCEPT !.torn = TornTail(r.fs[LogPath(r.version)])]
                      ELSE NoHist
           /\ last' = Last("open", f,
                           IF r.ok THEN "ok" ELSE IF f.kind = "crash" THEN "crash" ELSE "err",
                           FALSE, None)
    /\ pre' = NoPre
    /\ faults' = Count(f)
    /\ UNCHANGED dirExists
    /\ UNCHANGED tvars

\* Database::extend_update_log
extend_update_log_write_unchecked(fs, v, u, f) ==
    LET r1 == create_logfile_if_required(fs, v, f)
        path == LogPath(v)
        ser == serialize_params(u)
        append(n) == WriteFile(r1.fs, path, r1.fs[path] \o SubSeq(ser, 1, n))
    IN  IF ~r1.ok THEN r1
        ELSE IF f.at = "serialize" \/ f.at = "append_open" THEN Stepped(FALSE, r1.fs)
        ELSE IF f.at = "write" THEN Stepped(TRUE, append(f.n))
        ELSE IF f.at = "flush" THEN Stepped(FALSE, append(Len(ser)))
        ELSE Stepped(TRUE, append(Len(ser)))
extend_update_log(fs, v, u, f) ==
    LET r1 == create_logfile_if_required(fs, v, f)
        path == LogPath(v)
        ser == serialize_params(u)
        append(n) == WriteFile(r1.fs, path, r1.fs[path] \o SubSeq(ser, 1, n))
    IN  IF ~r1.ok THEN r1
        ELSE IF f.at = "serialize" \/ f.at = "append_open" THEN Stepped(FALSE, r1.fs)
        ELSE IF f.at = "write" THEN Stepped(FALSE, append(f.n))
        ELSE IF f.at = "flush" THEN Stepped(FALSE, append(Len(ser)))
        ELSE Stepped(TRUE, append(Len(ser)))

extend_update_log_faults(fs, v, u) ==
    create_logfile_faults(fs, v) \cup FaultAt({"err"}, "serialize")
      \cup FaultAt(BothKinds, "append_open")
      \cup WriteFaultAt(BothKinds, "write", Len(serialize_params(u)))
      \cup FaultAt(BothKinds, "flush")

LogLen(fs, v) == IF Exists(fs, LogPath(v)) THEN Len(fs[LogPath(v)]) ELSE 0

\* Database::update after extend_update_log returned: `?` leaves on an error,
\* otherwise self.data.update(parameters) runs
update_applied_early(d, u, logged) == [data |-> DataUpdate(d, u), applied |-> TRUE]
update(d, u, logged) ==
    IF logged THEN [data |-> DataUpdate(d, u), applied |-> TRUE]
    ELSE [data |-> d, applied |-> FALSE]

\* Database::update
Update(u, f) ==
    /\ hOpen
    /\ LogLen(files, version) + Len(serialize_params(u)) <= MaxLogLen
    /\ f = NoFault \/ faults < MaxFaults
    /\ LET r == extend_update_log(files, version, u, f)
           a == update(data, u, r.ok)
       IN  /\ files' = r.fs
           /\ IF f.kind = "crash"
              THEN /\ NoHandle
                   /\ pre' = [data |-> data, version |-> version]
                   /\ last' = Last("update", f, "crash", FALSE, None)
              ELSE /\ hOpen' = TRUE
                   /\ data' = a.data
                   /\ version' = version
                   /\ hist' = IF r.ok THEN hist ELSE [hist EXCEPT !.updErr = TRUE]
                   /\ pre' = NoPre
                   /\ last' = Last("update", f, IF r.ok THEN "ok" ELSE "err", a.applied, None)
    /\ faults' = Count(f)
    /\ UNCHANGED dirExists
    /\ UNCHANGED tvars

\* Database::create_checkpoint up to the commit of the version pointer
commit_checkpoint(fs, v1, d, f) ==
    LET r1 == write_checkpoint_file(fs, v1, d, f)
        r2 == IF r1.ok THEN create_logfile_if_required(r1.fs, v1, f) ELSE r1
    IN  IF r2.ok THEN update_version_file(r2.fs, v1, f) ELSE r2

\* the calls of Database::create_checkpoint after self.version += 1; an
\* error of cleanup is logged and the result is Ok
create_checkpoint_cleanup_fatal(fs, v1, d, f) ==
    LET r == commit_checkpoint(fs, v1, d, f)
    IN  IF r.ok THEN cleanup(r.fs, v1, f) ELSE r
create_checkpoint(fs, v1, d, f) ==
    LET r == commit_checkpoint(fs, v1, d, f)
    IN  IF r.ok THEN Stepped(TRUE, cleanup(r.fs, v1, f).fs) ELSE r

create_checkpoint_faults(fs, v1, d) ==
    write_checkpoint_faults(d) \cup create_logfile_faults(fs, v1)
      \cup update_version_faults(v1)
      \cup cleanup_faults(commit_checkpoint(fs, v1, d, NoFault).fs, v1)

\* Database::create_checkpoint
CreateCheckpoint(f) ==
    /\ hOpen
    /\ version < MaxVersion
    /\ f = NoFault \/ faults < MaxFaults
    /\ LET r == create_checkpoint(files, version + 1, data, f)
       IN  /\ files' = r.fs
           /\ IF f.kind = "crash"
              THEN /\ NoHandle
                   /\ pre' = [data |-> data, version |-> version]
                   /\ last' = Last("checkpoint", f, "crash", FALSE, None)
              ELSE /\ hOpen' = TRUE
                   /\ data' = data
                   /\ version' = version + 1
                   /\ hist' = IF ~r.ok THEN [hist EXCEPT !.ckptErr = f.at]
                              ELSE IF f.kind = "err" THEN [hist EXCEPT !.cleanupErr = TRUE]
                              ELSE hist
                   /\ pre' = NoPre
                   /\ last' = Last("checkpoint", f, IF r.ok THEN "ok" ELSE "err", FALSE, None)
    /\ faults' = Count(f)
    /\ UNCHANGED dirExists
    /\ UNCHANGED tvars

\* Database::read, Database::read_all and Database::clone_data
Read_takes_entry(k) ==
    /\ hOpen
    /\ last' = Last("read", NoFault, "ok", FALSE, DataRead(data, k))
    /\ pre' = NoPre
    /\ data' = [data EXCEPT ![k] = None]
    /\ UNCHANGED <<dirExists, files, hOpen, version, hist, faults>>
    /\ UNCHANGED tvars
Read(k) ==
    /\ hOpen
    /\ last' = Last("read", NoFault, "ok", FALSE, DataRead(data, k))
    /\ pre' = NoPre
    /\ UNCHANGED <<dirExists, files, hOpen, data, version, hist, faults>>
    /\ UNCHANGED tvars

\* the handle is dropped, or the process ends between two operations
Close ==
    /\ hOpen
    /\ NoHandle
    /\ last' = Last("close", NoFault, "ok", FALSE, None)
    /\ pre' = NoPre
    /\ UNCHANGED <<dirExists, files, faults>>
    /\ UNCHANGED tvars

delete_faults(fs) ==
    [kind : BothKinds, at : {"remove_dir_all"}, n : {0}, del : SUBSET (DOMAIN fs)]

\* Database::delete: remove_dir_all removes the entries, then the directory
Delete(f) ==
    /\ hOpen
    /\ f = NoFault \/ faults < MaxFaults
    /\ IF f = NoFault
       THEN dirExists' = FALSE /\ files' = NoFiles
       ELSE dirExists' = TRUE /\ files' = RemoveFiles(files, f.del)
    /\ NoHandle
    /\ last' = Last("delete", f, IF f = NoFault THEN "ok" ELSE f.kind, FALSE, None)
    /\ pre' = NoPre
    /\ faults' = Count(f)
    /\ UNCHANGED tvars

\* every operation, with the faults its calls can meet in the current state
Next ==
    \/ \E f \in {NoFault} \cup open_create_faults : OpenCreate(f)
    \/ \E f \in {NoFault} \cup open_existing_faults(files) : OpenExisting(f)
    \/ \E u \in Updates :
         \E f \in {NoFault} \cup extend_update_log_faults(files, version, u) : Update(u, f)
    \/ \E f \in {NoFault} \cup create_checkpoint_faults(files, version + 1, data) :
         CreateCheckpoint(f)
    \/ \E k \in Keys : Read(k)
    \/ Close
    \/ \E f \in {NoFault} \cup delete_faults(files) : Delete(f)

Spec == Init /\ [][Next]_vars

\* the same operations when no call fails and the process never crashes
NextNoFault ==
    \/ OpenCreate(NoFault)
    \/ OpenExisting(NoFault)
    \/ \E u \in Updates : Update(u, NoFault)
    \/ CreateCheckpoint(NoFault)
    \/ \E k \in Keys : Read(k)
    \/ Close
    \/ Delete(NoFault)

SpecNoFault == Init /\ [][NextNoFault]_vars

\* the operations when only update meets failures and crashes, at any of its
\* calls; create_checkpoint runs through or is refused at its first call,
\* File::create of the checkpoint file, which leaves the handle on a version
\* that has no log file yet, so that the next update must create one
NextUpdateFaults ==
    \/ OpenCreate(NoFault)
    \/ OpenExisting(NoFault)
    \/ \E u \in Updates :
         \E f \in {NoFault} \cup extend_update_log_faults(files, version, u) : Update(u, f)
    \/ \E f \in {NoFault} \cup FaultAt({"err"}, "ckpt_create") : CreateCheckpoint(f)
    \/ \E k \in Keys : Read(k)
    \/ Close
    \/ Delete(NoFault)

SpecUpdateFaults == Init /\ [][NextUpdateFaults]_vars

\* the operations when only cleanup meets failures and crashes: the scan or
\* a deletion fails after any part of the outdated files was removed
NextCleanupFaults ==
    \/ OpenCreate(NoFault)
    \/ OpenExisting(NoFault)
    \/ \E u \in Updates : Update(u, NoFault)
    \/ \E f \in {NoFault}
           \cup cleanup_faults(commit_checkpoint(files, version + 1, data, NoFault).fs,
                               version + 1) : CreateCheckpoint(f)
    \/ \E k \in Keys : Read(k)
    \/ Close
    \/ Delete(NoFault)

SpecCleanupFaults == Init /\ [][NextCleanupFaults]_vars

\* the faults at which the process dies
Crashes(S) == {f \in S : f.kind = "crash"}

\* the operations when only create_checkpoint meets faults: the process
\* dies at any of its calls, or cleanup fails
NextCheckpointCrashes ==
    \/ OpenCreate(NoFault)
    \/ OpenExisting(NoFault)
    \/ \E u \in Updates : Update(u, NoFault)
    \/ \E f \in {NoFault}
           \cup Crashes(create_checkpoint_faults(files, version + 1, data))
           \cup cleanup_faults(commit_checkpoint(files, version + 1, data, NoFault).fs,
                               version + 1) : CreateCheckpoint(f)
    \/ \E k \in Keys : Read(k)
    \/ Close
    \/ Delete(NoFault)

SpecCheckpointCrashes == Init /\ [][NextCheckpointCrashes]_vars

\* the operations when the process dies at any call of update or of
\* create_checkpoint, and open on the directory it left meets any fault
NextCrashes ==
    \/ OpenCreate(NoFault)
    \/ \E f \in {NoFault} \cup open_existing_faults(files) : OpenExisting(f)
    \/ \E u \in Updates :
         \E f \in {NoFault} \cup Crashes(extend_update_log_faults(files, version, u)) :
            Update(u, f)
    \/ \E f \in {NoFault} \cup Crashes(create_checkpoint_faults(files, version + 1, data)) :
         CreateCheckpoint(f)
    \/ \E k \in Keys : Read(k)
    \/ Close
    \/ Delete(NoFault)

SpecCrashes == Init /\ [][NextCrashes]_vars

(***************************************************************************)
(* The thread-safe wrapper (derive_bjw_db with thread_safe): the handle    *)
(* sits in a std::sync::RwLock; the generated read methods and clone_data  *)
(* take self.db.read(), the generated update methods and create_checkpoint *)
(* take self.db.write(), and the guard is dropped when the call returns.   *)
(* A thread's call is a sequence of steps; steps of different threads      *)
(* interleave.                                                             *)
(***************************************************************************)
\* RwLock::read: granted when no thread holds the lock for writing
read_acces(l, t) ==
    [ok |-> l.writer = None, lock |-> [l EXCEPT !.readers = @ \cup {t}]]

\* RwLock::write: granted when no thread holds the lock
write_access_shared(l, t) ==
    [ok |-> l.writer = None, lock |-> [l EXCEPT !.readers = @ \cup {t}]]
write_access(l, t) ==
    [ok |-> l.writer = None /\ l.readers = {}, lock |-> [l EXCEPT !.writer = t]]

\* the guard of thread t is dropped
DropGuard(l, t) ==
    [writer |-> IF l.writer = t THEN None ELSE l.writer, readers |-> l.readers \ {t}]

AllIdle == \A t \in Threads : pc[t] = "idle"

\* the faults that make a call return an error
Errs(S) == {f \in S : f.kind = "err"}

\* a generated update method: self.db.write().unwrap()
ThreadUpdateLock(t, u) ==
    /\ hOpen /\ pc[t] = "idle"
    /\ LogLen(files, version) + Len(serialize_params(u)) <= MaxLogLen
    /\ write_access(lock, t).ok
    /\ lock' = write_access(lock, t).lock
    /\ pc' = [pc EXCEPT ![t] = "append"]
    /\ arg' = [arg EXCEPT ![t] = u]
    /\ UNCHANGED <<dirExists, files, hOpen, data, version, last, pre, hist, faults>>

\* Database::update under the guard: extend_update_log; an error returns
ThreadUpdateAppend(t, f) ==
    /\ hOpen /\ pc[t] = "append"
    /\ f = NoFault \/ faults < MaxFaults
    /\ LET r == extend_update_log(files, version, arg[t], f)
       IN  /\ files' = r.fs
           /\ IF r.ok
              THEN /\ pc' = [pc EXCEPT ![t] = "apply"]
                   /\ UNCHANGED <<lock, arg, last, hist>>
              ELSE /\ pc' = [pc EXCEPT ![t] = "idle"]
                   /\ lock' = DropGuard(lock, t)
                   /\ arg' = [arg EXCEPT ![t] = NoArg]
                   /\ hist' = [hist EXCEPT !.updErr = TRUE]
                   /\ last' = Last("update", f, "err", FALSE, None)
    /\ pre' = NoPre
    /\ faults' = Count(f)
    /\ UNCHANGED <<dirExists, hOpen, data, version>>

\* Database::update under the guard: self.data.update, then the call returns
ThreadUpdateApply(t) ==
    /\ hOpen /\ pc[t] = "apply"
    /\ data' = update(data, arg[t], TRUE).data
    /\ pc' = [pc EXCEPT ![t] = "idle"]
    /\ lock' = DropGuard(lock, t)
    /\ arg' = [arg EXCEPT ![t] = NoArg]
    /\ last' = Last("update", NoFault, "ok", TRUE, None)
    /\ pre' = NoPre
    /\ UNCHANGED <<dirExists, files, hOpen, version, hist, faults>>

\* the generated create_checkpoint: self.db.write().unwrap()
ThreadCheckpointLock(t) ==
    /\ hOpen /\ pc[t] = "idle"
    /\ version < MaxVersion
    /\ write_access(lock, t).ok
    /\ lock' = write_access(lock, t).lock
    /\ pc' = [pc EXCEPT ![t] = "checkpoint"]
    /\ UNCHANGED <<dirExists, files, hOpen, data, version, last, pre, hist, faults, arg>>

\* Database::create_checkpoint under the guard, then the call returns
ThreadCheckpoint(t, f) ==
    /\ hOpen /\ pc[t] = "checkpoint"
    /\ f = NoFault \/ faults < MaxFaults
    /\ LET r == create_checkpoint(files, version + 1, data, f)
       IN  /\ files' = r.fs
           /\ hist' = IF ~r.ok THEN [hist EXCEPT !.ckptErr = f.at]
                      ELSE IF f.kind = "err" THEN [hist EXCEPT !.cleanupErr = TRUE]
                      ELSE hist
           /\ last' = Last("checkpoint", f, IF r.ok THEN "ok" ELSE "err", FALSE, None)
    /\ version' = version + 1
    /\ pc' = [pc EXCEPT ![t] = "idle"]
    /\ lock' = DropGuard(lock, t)
    /\ pre' = NoPre
    /\ faults' = Count(f)
    /\ UNCHANGED <<dirExists, hOpen, data, arg>>

\* a generated read method or clone_data: self.db.read().unwrap()
ThreadReadLock(t, k) ==
    /\ hOpen /\ pc[t] = "idle"
    /\ read_acces(lock, t).ok
    /\ lock' = read_acces(lock, t).lock
    /\ pc' = [pc EXCEPT ![t] = "read"]
    /\ arg' = [arg EXCEPT ![t] = [key |-> k, value |-> None]]
    /\ UNCHANGED <<dirExists, files, hOpen, data, version, last, pre, hist, faults>>

\* Database::read under the guard, then the call returns
ThreadRead(t) ==
    /\ hOpen /\ pc[t] = "read"
    /\ last' = Last("read", NoFault, "ok", FALSE, DataRead(data, arg[t].key))
    /\ pc' = [pc EXCEPT ![t] = "idle"]
    /\ lock' = DropGuard(lock, t)
    /\ arg' = [arg EXCEPT ![t] = NoArg]
    /\ pre' = NoPre
    /\ UNCHANGED <<dirExists, files, hOpen, data, version, hist, faults>>

\* the calls of the threads; into_inner, drop and delete need the wrapper
\* itself, which no thread is then using
NextThreads ==
    \/ OpenCreate(NoFault)
    \/ OpenExisting(NoFault)
    \/ \E t \in Threads, u \in Updates : ThreadUpdateLock(t, u)
    \/ \E t \in Threads :
         \E f \in {NoFault} \cup Errs(extend_update_log_faults(files, version, arg[t])) :
            ThreadUpdateAppend(t, f)
    \/ \E t \in Threads : ThreadUpdateApply(t)
    \/ \E t \in Threads : ThreadCheckpointLock(t)
    \/ \E t \in Threads :
         \E f \in {NoFault} \cup Errs(create_checkpoint_faults(files, version + 1, data)) :
            ThreadCheckpoint(t, f)
    \/ \E t \in Threads, k \in Keys : ThreadReadLock(t, k)
    \/ \E t \in Threads : ThreadRead(t)
    \/ AllIdle /\ Close
    \/ AllIdle /\ Delete(NoFault)

SpecThreads == Init /\ [][NextThreads]_vars

\* the calls of the threads when only the log append of an update fails
NextThreadsUpdateFaults ==
    \/ OpenCreate(NoFault)
    \/ OpenExisting(NoFault)
    \/ \E t \in Threads, u \in Updates : ThreadUpdateLock(t, u)
    \/ \E t \in Threads :
         \E f \in {NoFault} \cup Errs(extend_update_log_faults(files, version, arg[t])) :
            ThreadUpdateAppend(t, f)
    \/ \E t \in Threads : ThreadUpdateApply(t)
    \/ \E t \in Threads : ThreadCheckpointLock(t)
    \/ \E t \in Threads : ThreadCheckpoint(t, NoFault)
    \/ \E t \in Threads, k \in Keys : ThreadReadLock(t, k)
    \/ \E t \in Threads : ThreadRead(t)
    \/ AllIdle /\ Close
    \/ AllIdle /\ Delete(NoFault)

SpecThreadsUpdateFaults == Init /\ [][NextThreadsUpdateFaults]_vars


(***************************************************************************)
(* What the claims speak about.                                            *)
(***************************************************************************)
\* the result of Database::open on the directory as it is now
Reopened == open_existing(files, NoFault)

\* the file open reads the version from: it renames new_version over version
PointerFile(fs) == IF Exists(fs, NEW_VERSION_FILE) THEN NEW_VERSION_FILE ELSE VERSION_FILE

\* I1: the pointer holds a number V, checkpoint.V and logfile.V exist and
\* checkpoint.V is a complete snapshot
I1(fs) ==
    /\ Exists(fs, PointerFile(fs))
    /\ ParseU64(fs[PointerFile(fs)]).ok
    /\ LET V == ParseU64(fs[PointerFile(fs)]).v
       IN  /\ Exists(fs, CheckpointPath(V))
           /\ Exists(fs, LogPath(V))
           /\ deserialize_data(fs[CheckpointPath(V)]).ok

\* the records of a log read line by line, whatever its encoding
RecordsOf(log) == ParseLines(Split(log))

ApplyAll(d, us) ==
    LET Apply[i \in 0..Len(us)] == IF i = 0 THEN d ELSE DataUpdate(Apply[i - 1], us[i])
    IN  Apply[Len(us)]

\* I2 for version V: data is checkpoint.V with the records of logfile.V applied
I2(fs, V, d) ==
    /\ Exists(fs, CheckpointPath(V)) /\ Exists(fs, LogPath(V))
    /\ deserialize_data(fs[CheckpointPath(V)]).ok
    /\ d = ApplyAll(deserialize_data(fs[CheckpointPath(V)]).data, RecordsOf(fs[LogPath(V)]))

\* the failures of create_checkpoint that come before the rename
BeforeRename ==
    {"ckpt_create", "ckpt_serialize", "ckpt_write", "ckpt_sync",
     "log_create", "log_sync", "nv_create", "nv_write", "nv_sync"}

\* C1: with no failure and no crash, whatever updates and checkpoints a
\* handle has made, reopening the path yields the handle's in-memory state.
C1_RoundTrip == hOpen => (Reopened.ok /\ Reopened.data = data)

\* a reopened handle at version 1 whose log holds two records
C1_Witness ==
    /\ hOpen /\ last.op = "open" /\ version = 1
    /\ Len(RecordsOf(files[LogPath(1)])) = 2
    /\ data = [k \in Keys |-> "1"]

\* C2: after a crash inside create_checkpoint the next open succeeds, adopts
\* version V or V+1 and recovers the state the handle held at the call.
C2_CrashAtomicCheckpoint ==
    (last.op = "checkpoint" /\ last.res = "crash") =>
        /\ Reopened.ok
        /\ Reopened.version \in {pre.version, pre.version + 1}
        /\ Reopened.data = pre.data

\* C3: I1 holds of every on-disk state of an existing store directory,
\* crash points of open, update and create_checkpoint included.
C3_PointerNamesCompleteVersion == dirExists => I1(files)

\* C4: a handle opened on a log with a torn tail satisfies I2 after open and
\* after every successful update.
C4_I2AfterTornRecovery ==
    (hOpen /\ hist.torn /\ ~hist.updErr /\ hist.ckptErr = "none") =>
        I2(files, version, data)

\* C5: an update that returns an error leaves data and version as they were
\* and does not invoke the domain update function.
C5_DurabilityBeforeApply ==
    [][(last'.op = "update" /\ last'.res = "err") =>
          (hOpen' /\ data' = data /\ version' = version /\ ~last'.applied)]_vars

\* a failed update on a handle that holds data, part of the record written
C5_Witness ==
    /\ hOpen /\ last.op = "update" /\ last.res = "err" /\ last.at = "write"
    /\ data # Default

\* C6: after a failed update, a later open recovers exactly the updates that
\* returned Ok: not the failed one, and every one made after the failure.
C6_FailedUpdateNoPartialEffect ==
    (hOpen /\ hist.updErr /\ ~hist.torn /\ hist.ckptErr = "none") =>
        (Reopened.ok /\ Reopened.data = data)

\* C7: after create_checkpoint failed before the rename, the handle still
\* operates on the version on disk and a later open recovers its updates.
C7_FailedCheckpointKeepsVersion ==
    (hOpen /\ hist.ckptErr \in BeforeRename /\ ~hist.torn /\ ~hist.updErr) =>
        (Reopened.ok /\ Reopened.version = version /\ Reopened.data = data)

\* C8: after create_checkpoint returned Ok the log of the new version is
\* empty and a reopen yields the in-memory state.
C8_CheckpointPreservesContent ==
    (hOpen /\ last.op = "checkpoint" /\ last.res = "ok") =>
        /\ Exists(files, LogPath(version))
        /\ files[LogPath(version)] = <<>>
        /\ Reopened.ok /\ Reopened.data = data

\* C9: on a directory that satisfies I1, whatever bytes follow the
\* well-formed records of logfile.V, open succeeds with exactly those
\* records applied to checkpoint.V.
C9_TruncatedTailTolerance ==
    (dirExists /\ ~hOpen /\ I1(files)) =>
        /\ Reopened.ok
        /\ I2(files, ParseU64(files[PointerFile(files)]).v, Reopened.data)

\* the version files of the directory
VersionedFiles(fs) == {n \in DOMAIN fs : Len(n) = 2}

Retained ==
    /\ \A n \in VersionedFiles(files) : n[2] >= version
    /\ ~Exists(files, NEW_VERSION_FILE)
    /\ Exists(files, VERSION_FILE)
    /\ Exists(files, CheckpointPath(version))
    /\ Exists(files, LogPath(version))

\* C10 as stated: after create_checkpoint returned Ok and no deletion of
\* cleanup failed, no file of a lower version and no new_version is left.
C10_RetentionNoDeletionError ==
    (hOpen /\ last.op = "checkpoint" /\ last.res = "ok" /\ last.at # "cleanup_remove") =>
        Retained

\* C10 amended: after create_checkpoint returned Ok and cleanup returned Ok
\* (neither the directory scan nor a deletion failed), no file of a lower
\* version and no new_version is left, and version, checkpoint.V and
\* logfile.V are present.
C10_Retention ==
    (hOpen /\ last.op = "checkpoint" /\ last.res = "ok" /\ last.at = "none") =>
        Retained

\* a second checkpoint with a clean cleanup, on a handle that holds data
C10_Witness ==
    /\ hOpen /\ last.op = "checkpoint" /\ last.res = "ok" /\ last.at = "none"
    /\ version = 2 /\ data # Default

\* the steps of cleanup at which it can fail
CleanupSteps == {"cleanup_scan", "cleanup_remove"}

\* C11: a failure of cleanup does not fail create_checkpoint: the call
\* returns Ok with the new version committed, the handle's later updates and
\* a reopen give what they give after a clean cleanup, and the files left
\* behind are gone after the next checkpoint whose cleanup succeeds.
C11_CleanupFailureNonFatal ==
    /\ (last.op = "checkpoint" /\ last.at \in CleanupSteps /\ last.res # "crash") =>
           /\ last.res = "ok" /\ hOpen
           /\ files[VERSION_FILE] = to_string(version)
    /\ (hOpen /\ hist.cleanupErr) =>
           /\ Reopened.ok /\ Reopened.version = version /\ Reopened.data = data
           /\ Reopened.data =
                open_existing(RemoveFiles(files, Outdated(files, version)), NoFault).data
    /\ (hOpen /\ hist.cleanupErr /\ last.op = "checkpoint" /\ last.at = "none") =>
           Retained

\* a handle whose first checkpoint left files of version 0 behind, after an
\* update of version 1 and a second checkpoint that removed them
C11_Witness ==
    /\ hOpen /\ hist.cleanupErr /\ version = 2
    /\ last.op = "checkpoint" /\ last.res = "ok" /\ last.at = "none"
    /\ data # Default

\* the number the version pointer holds, when it holds one
PointerOk(fs) == Exists(fs, PointerFile(fs)) /\ ParseU64(fs[PointerFile(fs)]).ok
PointerValue(fs) == ParseU64(fs[PointerFile(fs)]).v

\* C12: a created store has version 0, the number in the version pointer of
\* a store never decreases, and a create_checkpoint that returns Ok leaves
\* the pointer 1 greater than before the call and equal to the handle's
\* version.
C12_VersionCounter ==
    [][/\ (last'.op = "open" /\ last'.res = "ok" /\ ~dirExists) =>
              (version' = 0 /\ PointerOk(files') /\ PointerValue(files') = 0)
       /\ (dirExists /\ dirExists' /\ PointerOk(files) /\ PointerOk(files')) =>
              PointerValue(files') >= PointerValue(files)
       /\ (last'.op = "checkpoint" /\ last'.res = "ok" /\ PointerOk(files)) =>
              /\ PointerOk(files')
              /\ PointerValue(files') = PointerValue(files) + 1
              /\ PointerValue(files') = version']_vars

\* checkpoint.v is present and holds a complete snapshot
CheckpointComplete(fs, v) ==
    Exists(fs, CheckpointPath(v)) /\ deserialize_data(fs[CheckpointPath(v)]).ok

\* C13 (I3): update appends bytes to logfile.V only when checkpoint.V has
\* been written completely.
C13_AppendAfterCheckpoint ==
    [][(last'.op = "update" /\ LogLen(files', version) > LogLen(files, version)) =>
          CheckpointComplete(files, version)]_vars

\* the bytes of logfile.v, none when the file does not exist
LogOf(fs, v) == IF Exists(fs, LogPath(v)) THEN fs[LogPath(v)] ELSE <<>>

IsPrefix(a, b) == Len(a) <= Len(b) /\ SubSeq(b, 1, Len(a)) = a

\* C14 (I4): an update that is applied or returns Ok has appended its whole
\* record to the current log, and at every outcome of update, a crash
\* included, the bytes the log held before are still its beginning: the
\* records of the updates that returned Ok stay in the log.
C14_WriteAhead ==
    [][last'.op = "update" =>
          /\ (last'.applied \/ last'.res = "ok" \/ (hOpen' /\ data' # data)) =>
                 \E u \in Updates :
                    /\ LogOf(files', version) = LogOf(files, version) \o serialize_params(u)
                    /\ data' = DataUpdate(data, u)
          /\ IsPrefix(LogOf(files, version), LogOf(files', version))]_vars

\* a crash inside write_all of update, on a log that holds the record of an
\* earlier update that returned Ok
C14_Witness ==
    /\ ~hOpen /\ last.op = "update" /\ last.res = "crash" /\ last.at = "write"
    /\ pre.data # Default
    /\ Len(LogOf(files, pre.version)) > Len(serialize_params([key |-> "e9", value |-> "1"]))

\* C15: open on an existing directory returns an error and no handle when
\* the version pointer is missing or holds no number, or when checkpoint.V
\* is missing or incomplete; when it returns Ok its state is checkpoint.V
\* with the records of logfile.V applied; when it fails the files of the
\* directory are as they were.
C15_OpenFailsOnCorruption ==
    [][(last'.op = "open" /\ dirExists) =>
          /\ (~PointerOk(files) \/ ~CheckpointComplete(files, PointerValue(files))) =>
                 (~hOpen' /\ last'.res # "ok")
          /\ hOpen' =>
                 (version' = PointerValue(files) /\ I2(files', version', data'))
          /\ (last'.res = "err") => files' = files]_vars

\* the directory of a store that has just been created
FreshStore ==
    [n \in {VERSION_FILE, CheckpointPath(0), LogPath(0)} |->
        IF n = VERSION_FILE THEN <<48>>
        ELSE IF n = CheckpointPath(0) THEN serialize_data(Default)
        ELSE <<>>]

\* C16: open on a path that does not exist, after a delete included, returns
\* a handle with version 0 and the default state and leaves exactly version
\* holding "0", checkpoint.0 holding the default state and an empty
\* logfile.0; a successful delete leaves no directory.
C16_CreateOnAbsence ==
    [][/\ (last'.op = "open" /\ last'.res = "ok" /\ ~dirExists) =>
              /\ hOpen' /\ version' = 0 /\ data' = Default
              /\ dirExists' /\ files' = FreshStore
              /\ Reopened'.ok /\ Reopened'.version = 0 /\ Reopened'.data = Default
       /\ (last'.op = "delete" /\ last'.res = "ok") =>
              (~dirExists' /\ ~hOpen' /\ files' = NoFiles)]_vars

\* a store created on the path of a deleted store that had been through a
\* checkpoint: only such a store has met a failure of cleanup
C16_Witness ==
    /\ hOpen /\ last.op = "open" /\ last.res = "ok" /\ faults > 0
    /\ version = 0 /\ files = FreshStore

\* C17: a read returns the entry of the in-memory state and leaves the
\* state, the version and every file of the directory as they were, so the
\* result of a later read and of a reopen, which are functions of these, are
\* what they were before it.
C17_ReadsArePure ==
    [][last'.op = "read" =>
          /\ \E k \in Keys : last'.ret = DataRead(data, k)
          /\ UNCHANGED <<dirExists, files, hOpen, data, version>>]_vars

\* a read of a value that was set after a checkpoint
C17_Witness ==
    /\ hOpen /\ last.op = "read" /\ last.ret = "2" /\ version = 1
    /\ LogOf(files, 1) # <<>>

\* the positions of a thread inside the generated update methods
InUpdate == {"append", "apply"}

\* C18: under the thread-safe wrapper no two updates are between their
\* log append and their apply at once, and whenever no update is under way
\* the records of the log, applied in order to the checkpoint, give the
\* in-memory state.
C18_UpdatesTotallyOrdered ==
    /\ \A t, s \in Threads : (t # s /\ pc[t] \in InUpdate) => pc[s] \notin InUpdate
    /\ (hOpen /\ hist.ckptErr = "none" /\ \A t \in Threads : pc[t] \notin InUpdate) =>
           I2(files, version, data)

\* the positions of a thread that holds the lock for writing
InWrite == {"append", "apply", "checkpoint"}

EndsWith(log, rec) ==
    Len(log) >= Len(rec) /\ SubSeq(log, Len(log) - Len(rec) + 1, Len(log)) = rec

\* C19: under the thread-safe wrapper a read holds the lock only while no
\* update and no checkpoint holds it; the in-memory state changes only by
\* the apply of an update whose whole record is at the end of the log; an
\* update that returns Ok has put its value into the state, and a read
\* returns the entry of the state as it is when the read runs.
C19_ReadsSeeLoggedUpdates ==
    [][/\ \A t, s \in Threads : pc'[t] = "read" => pc'[s] \notin InWrite
       /\ (hOpen /\ hOpen' /\ data' # data) =>
              \E t \in Threads :
                 /\ pc[t] = "apply" /\ lock.writer = t /\ lock.readers = {}
                 /\ EndsWith(LogOf(files, version), serialize_params(arg[t]))
       /\ \A t \in Threads : (pc[t] = "apply" /\ pc'[t] = "idle") =>
              (last'.res = "ok" /\ data' = DataUpdate(data, arg[t]))
       /\ \A t \in Threads : (pc[t] = "read" /\ pc'[t] = "idle") =>
              /\ last'.ret = DataRead(data, arg[t].key)
              /\ lock.writer = None /\ data' = data]_vars

\* a read that returns the value of an update made by the other thread,
\* on a handle one of whose updates has failed
C19_Witness ==
    /\ hOpen /\ last.op = "read" /\ last.ret = "2" /\ hist.updErr
    /\ \E t \in Threads : pc[t] = "append"

\* C20: under the thread-safe wrapper no update and no read is under way
\* while a create_checkpoint is, and once every thread has returned and no
\* update has failed, a reopen recovers the in-memory state: every update
\* that returned Ok is in the snapshot or in the log of the current version.
C20_CheckpointExcludesUpdates ==
    /\ \A t, s \in Threads : (t # s /\ pc[t] = "checkpoint") => pc[s] = "idle"
    /\ (hOpen /\ AllIdle /\ ~hist.updErr /\ ~hist.torn) =>
           (Reopened.ok /\ Reopened.data = data)

\* the steps of create_checkpoint that come after the rename of the pointer
AfterRename == {"none"} \cup CleanupSteps

\* C21: create_checkpoint from V to V+1 changes no file but checkpoint.(V+1),
\* logfile.(V+1) and new_version before the rename of the version pointer;
\* it removes files only after the rename, and then only checkpoint and log
\* files of versions below V+1 (and new_version); it never changes the
\* content of a file of another version, and after the rename version,
\* checkpoint.(V+1), logfile.(V+1) and every file of a version from V+1 on
\* are present.
C21_CheckpointFrame ==
    [][last'.op = "checkpoint" =>
          LET V1 == version + 1
              written == {CheckpointPath(V1), LogPath(V1), NEW_VERSION_FILE}
          IN  /\ (last'.at \notin AfterRename) =>
                     \A n \in (DOMAIN files) \ written :
                        n \in DOMAIN files' /\ files'[n] = files[n]
              /\ \A n \in (DOMAIN files) \ (DOMAIN files') :
                     n # NEW_VERSION_FILE =>
                        /\ last'.at \in AfterRename
                        /\ files'[VERSION_FILE] = to_string(V1)
                        /\ Len(n) = 2 /\ n[2] < V1
              /\ \A n \in (DOMAIN files) \cap (DOMAIN files') :
                     (Len(n) = 2 /\ n[2] # V1) => files'[n] = files[n]
              /\ (last'.at \in AfterRename) =>
                     /\ {VERSION_FILE, CheckpointPath(V1), LogPath(V1)} \subseteq DOMAIN files'
                     /\ \A n \in DOMAIN files :
                           (Len(n) = 2 /\ n[2] >= V1) => n \in DOMAIN files']_vars

\* a crash of create_checkpoint at the rename of the pointer, the staged
\* pointer written, on a store whose current log holds a record
C21_Witness ==
    /\ last.op = "checkpoint" /\ last.res = "crash" /\ last.at = "rename"
    /\ Exists(files, NEW_VERSION_FILE)
    /\ LogOf(files, pre.version) # <<>>
    /\ files[VERSION_FILE] = to_string(pre.version)

\* an open of the directory that the last open left gives the same result
OpenRepeats ==
    /\ (last.op = "open" /\ hOpen) =>
           /\ Reopened.ok /\ Reopened.fs = files
           /\ Reopened.data = data /\ Reopened.version = version
    /\ (last.op = "open" /\ last.res = "err" /\ last.at = "none" /\ files # NoFiles) =>
           ~Reopened.ok

\* C22: open on an existing directory leaves every checkpoint and log file
\* as it found it and creates none; the one change it can make is to rename
\* an existing new_version over version; an open of the directory it left
\* gives the same result, equal state and version or again an error.
C22_OpenReadOnly ==
    /\ [][(last'.op = "open" /\ dirExists) =>
             /\ VersionedFiles(files') = VersionedFiles(files)
             /\ \A n \in VersionedFiles(files) : files'[n] = files[n]
             /\ \/ files' = files
                \/ /\ Exists(files, NEW_VERSION_FILE)
                   /\ files' = Rename(files, NEW_VERSION_FILE, VERSION_FILE)]_vars
    /\ []OpenRepeats

\* an open at version 1 that has replayed a log whose tail is a fragment
\* and left the fragment in the file
C22_Witness ==
    /\ hOpen /\ last.op = "open" /\ last.res = "ok"
    /\ hist.torn /\ version = 1 /\ TornTail(files[LogPath(1)])

====
